---- MODULE Spec2Model ----
(***************************************************************************)
(* Frontline Installer App: the diagnostic evaluation engine of            *)
(* src/src/app.tsx (per-subsystem status expressions, the diagCards list,  *)
(* the OverallStatusCard aggregator, RULEBOOK and the RulebookModal        *)
(* lookup).                                                                *)
(*                                                                         *)
(* Representation of the source's numbers and strings:                     *)
(*   - voltage is kept in hundredths of a volt (13.4 V is 1340), so that   *)
(*     10.99 V and 16.01 V are values of the model;                        *)
(*   - pressures are kept in tenths of a PSI, packet loss in tenths of a   *)
(*     percent; ping times are whole milliseconds;                         *)
(*   - the source's non-breaking hyphen U+2011 is written NBH, its bullet  *)
(*     U+2022 is written "*";                                              *)
(*   - JavaScript null is the string NULL, undefined remediation is <<>>;  *)
(*     a nullable number is <<>> for null and <<n>> for the number n;      *)
(*   - the glyph segments U+25AE (filled) and U+25AF (empty) are written   *)
(*     "#" and ".";                                                        *)
(*   - in RULEBOOK the signs U+2264, U+2265 and the en dash U+2013 are     *)
(*     written "<=", ">=" and "-".                                         *)
(* Of a card, id, title, status, summaryPrimary and remediation are kept,  *)
(* and of the Wi-Fi card the "Provisioned via Matter" details row; the     *)
(* other details rows and summarySecondary are display strings left out.   *)
(***************************************************************************)
EXTENDS Integers, Sequences, FiniteSets, TLC

VARIABLES
    m,                      \* the measurement snapshot (the demo datasets)
    matterWifiProvisioned,  \* useState, app.tsx:235
    matterProvisionedSsid,  \* useState, app.tsx:236
    satelliteBackup,        \* useState, app.tsx:255
    diagCards,              \* the useMemo result, app.tsx:410 (<<>>: not yet computed)
    overall,                \* what OverallStatusCard and the Overall Status row render
    pass,                   \* position of the evaluation pass
    wifiChannel,            \* const wifiChannel, app.tsx:360
    wifiGlyph,              \* wifiStrengthGlyph(wifiStrengthPercent), app.tsx:456
    rulebookOpen,           \* useState, app.tsx:272
    rulebookFocus,          \* useState, app.tsx:273: the modal's focus prop
    selectedId,             \* RulebookModal useState, app.tsx:1443 (<<>>: not mounted)
    selected,               \* RulebookModal const selected, app.tsx:1449
    stepIndex,              \* useState, app.tsx:222
    customerName,           \* useState, app.tsx:225
    installLocation,        \* useState, app.tsx:226
    installDate,            \* useState, app.tsx:227
    serial,                 \* useState, app.tsx:230
    matterPaired,           \* useState, app.tsx:231
    matterAttested,         \* useState, app.tsx:232
    primaryInterface,       \* useState, app.tsx:250
    selectedWifi,           \* useState, app.tsx:251
    wifiPassword,           \* useState, app.tsx:252
    usePairingDeviceNetwork, \* useState, app.tsx:253
    cellularBackup,         \* useState, app.tsx:254
    hhcType,                \* useState, app.tsx:258
    foamInstalled,          \* useState, app.tsx:259
    drainCycle,             \* useState, app.tsx:262
    zones,                  \* useState, app.tsx:263
    openDiagId              \* useState, app.tsx:269

vars == <<m, matterWifiProvisioned, matterProvisionedSsid, satelliteBackup,
          diagCards, overall, pass, wifiChannel, wifiGlyph,
          rulebookOpen, rulebookFocus, selectedId, selected,
          stepIndex, customerName, installLocation, installDate,
          serial, matterPaired, matterAttested,
          primaryInterface, selectedWifi, wifiPassword, usePairingDeviceNetwork,
          cellularBackup, hhcType, foamInstalled, drainCycle, zones, openDiagId>>

modal == <<rulebookOpen, rulebookFocus, selectedId, selected>>

identity == <<serial, matterPaired, matterAttested>>

station == <<customerName, installLocation, installDate>>

system == <<hhcType, foamInstalled, drainCycle, zones>>

network == <<primaryInterface, selectedWifi, wifiPassword, usePairingDeviceNetwork,
             cellularBackup>>

wizard == <<stepIndex, identity, station, system, network, openDiagId>>

evaluation == <<m, matterWifiProvisioned, matterProvisionedSsid, satelliteBackup,
                diagCards, overall, pass, wifiChannel, wifiGlyph>>

\* ------------------------------------------------------------------ bounds

MaxCentiVolts == 1700
MaxDeciPsi == 1000
MaxPingMs == 300
MaxErrCount == 2
MaxDeciLoss == 30
MaxStrength == 100
MaxFreqMHz == 6000
StrengthMargin == 60
MaxZones == 3

\* ------------------------------------------------------- units and values

Volts(v) == v * 100
Psi(p) == p * 10
Pct(p) == p * 10

NULL == "null"
NBH == "<U+2011>"

Status == {"success", "warning", "error"}
Reachability == {"online", "offline", "unknown"}
SatStates == {"ready", "offline", "not configured"}
YesNo == {"Yes", "No"}

pairingDeviceSsid == "Southern Cousin"
wifiNetworks == <<[ssid |-> "Southern Cousin", strength |-> 5, security |-> "WPA2"],
                  [ssid |-> "Robust Debt", strength |-> 4, security |-> "WPA2"],
                  [ssid |-> "Deranged Love", strength |-> 2, security |-> "WPA2"]>>
Ssids == {wifiNetworks[i].ssid : i \in 1..Len(wifiNetworks)}

satEnabled(backup) == backup = "Yes"

\* The demo's satellite state for a backup setting.
satStatus(enabled) == IF enabled THEN "offline" ELSE "not configured"

\* The demo datasets of the component body (satellite backup initially "Yes").
Demo ==
    [ voltage |-> 1340,
      ethInternet |-> "online", ethSpeed |-> "1000 Mb/s", ethLinkDetected |-> "Yes",
      ethRxErrors |-> 0, ethTxErrors |-> 0, ethRxDropped |-> 76,
      wifiTechPowered |-> TRUE, wifiConnected |-> TRUE,
      wifiInternetReachability |-> "online",
      wifiStrengthPercent |-> <<100>>, wifiFreqMHz |-> <<2412>>,
      cellInternetReachability |-> "online", cellStrength |-> 60,
      cellPacketLossPct |-> 0,
      satStatus |-> satStatus(satEnabled("Yes")),
      manifoldPsi |-> 450, sourcePsi |-> 620,
      cloudReachable |-> TRUE, cloudPingMs |-> 42,
      firmwareUpdateAvailable |-> TRUE, firmwareSupported |-> TRUE ]

\* ---------------------------------------------------------------- helpers

\* Math.round(n / d) for integers n and d > 0: halves round up.
round(n, d) == (2 * n + d) \div (2 * d)

Digit(d) ==
    CASE d = 0 -> "0" [] d = 1 -> "1" [] d = 2 -> "2" [] d = 3 -> "3" [] d = 4 -> "4"
      [] d = 5 -> "5" [] d = 6 -> "6" [] d = 7 -> "7" [] d = 8 -> "8" [] d = 9 -> "9"

\* String(n) of a non-negative integer.
RECURSIVE String(_)
String(n) == IF n < 10 THEN Digit(n) ELSE String(n \div 10) \o Digit(n % 10)

\* wifiChannelFromFreqMHz truncating the quotient instead of rounding it.
wifiChannelFloor(freqMHz) ==
    IF freqMHz = <<>> \/ freqMHz[1] = 0 THEN NULL
    ELSE IF freqMHz[1] >= 2412 /\ freqMHz[1] <= 2484
    THEN String((freqMHz[1] - 2407) \div 5)
    ELSE IF freqMHz[1] >= 5000 /\ freqMHz[1] <= 5900
    THEN String((freqMHz[1] - 5000) \div 5)
    ELSE NULL

wifiChannelFromFreqMHz(freqMHz) ==
    IF freqMHz = <<>> \/ freqMHz[1] = 0 THEN NULL
    ELSE IF freqMHz[1] >= 2412 /\ freqMHz[1] <= 2484
    THEN String(round(freqMHz[1] - 2407, 5))
    ELSE IF freqMHz[1] >= 5000 /\ freqMHz[1] <= 5900
    THEN String(round(freqMHz[1] - 5000, 5))
    ELSE NULL

Max(a, b) == IF a >= b THEN a ELSE b

Min(a, b) == IF a <= b THEN a ELSE b

\* String.prototype.repeat (the counts passed are never negative).
RECURSIVE repeat(_, _)
repeat(str, count) == IF count <= 0 THEN "" ELSE str \o repeat(str, count - 1)

\* wifiStrengthGlyph without the upper clamps.
wifiStrengthGlyphUnclamped(pct) ==
    IF pct = <<>> THEN "....."
    ELSE LET clamped == Max(0, pct[1])
             filled == Max(0, round(clamped, 20))
         IN  repeat("#", filled) \o repeat(".", 5 - filled)

\* wifiStrengthGlyph truncating to whole bands instead of rounding.
wifiStrengthGlyphFloor(pct) ==
    IF pct = <<>> THEN "....."
    ELSE LET clamped == Max(0, Min(100, pct[1]))
             filled == Max(0, Min(5, clamped \div 20))
         IN  repeat("#", filled) \o repeat(".", 5 - filled)

\* pct is null or an integer, so Math.round(pct) is pct.
wifiStrengthGlyph(pct) ==
    IF pct = <<>> THEN "....."
    ELSE LET clamped == Max(0, Min(100, pct[1]))
             filled == Max(0, Min(5, round(clamped, 20)))
         IN  repeat("#", filled) \o repeat(".", 5 - filled)

\* -------------------------------------------------------------- evaluators

\* powerStatus with the lower edge of the green band exclusive.
powerStatusOpenGreen(voltage) ==
    IF voltage > Volts(12) /\ voltage <= Volts(15) THEN "success"
    ELSE IF voltage >= Volts(11) /\ voltage < Volts(12) THEN "warning"
    ELSE IF voltage > Volts(15) /\ voltage <= Volts(16) THEN "warning"
    ELSE "error"

powerStatus(voltage) ==
    IF voltage >= Volts(12) /\ voltage <= Volts(15) THEN "success"
    ELSE IF voltage >= Volts(11) /\ voltage < Volts(12) THEN "warning"
    ELSE IF voltage > Volts(15) /\ voltage <= Volts(16) THEN "warning"
    ELSE "error"

\* manifoldStatus with the upper edge of the expected range exclusive.
manifoldStatusOpenHigh(manifoldPsi) ==
    IF manifoldPsi >= Psi(30) /\ manifoldPsi < Psi(80) THEN "success"
    ELSE IF manifoldPsi >= Psi(20) /\ manifoldPsi < Psi(30) THEN "warning"
    ELSE "error"

manifoldStatus(manifoldPsi) ==
    IF manifoldPsi >= Psi(30) /\ manifoldPsi <= Psi(80) THEN "success"
    ELSE IF manifoldPsi >= Psi(20) /\ manifoldPsi < Psi(30) THEN "warning"
    ELSE "error"

sourceStatus(sourcePsi) ==
    IF sourcePsi >= Psi(30) /\ sourcePsi <= Psi(80) THEN "success"
    ELSE IF sourcePsi >= Psi(20) /\ sourcePsi < Psi(30) THEN "warning"
    ELSE "error"

\* cloudStatus with the ping threshold exclusive.
cloudStatusStrictPing(cloudReachable, cloudPingMs) ==
    IF cloudReachable
    THEN (IF cloudPingMs < 250 THEN "success" ELSE "warning")
    ELSE "error"

cloudStatus(cloudReachable, cloudPingMs) ==
    IF cloudReachable
    THEN (IF cloudPingMs <= 250 THEN "success" ELSE "warning")
    ELSE "error"

\* firmwareStatus testing for an available update before support.
firmwareStatusUpdateFirst(firmwareSupported, firmwareUpdateAvailable) ==
    IF firmwareUpdateAvailable THEN "warning"
    ELSE IF ~firmwareSupported THEN "error"
    ELSE "success"

firmwareStatus(firmwareSupported, firmwareUpdateAvailable) ==
    IF ~firmwareSupported THEN "error"
    ELSE IF firmwareUpdateAvailable THEN "warning"
    ELSE "success"

\* Boolean(matterWifiProvisioned && matterProvisionedSsid): null and the empty
\* string are falsy.
wifiProvisioned(provisioned, ssid) ==
    provisioned /\ ssid # NULL /\ ssid # ""

\* wifiStatus reporting a powered but unconnected radio as a warning.
wifiStatusLenient(provisioned, wifiTechPowered, wifiConnected, wifiInternetReachability) ==
    IF provisioned
    THEN (IF wifiInternetReachability = "online" THEN "success" ELSE "warning")
    ELSE IF ~wifiTechPowered THEN "warning"
    ELSE IF wifiConnected /\ wifiInternetReachability = "online" THEN "success"
    ELSE "warning"

wifiStatus(provisioned, wifiTechPowered, wifiConnected, wifiInternetReachability) ==
    IF provisioned
    THEN (IF wifiInternetReachability = "online" THEN "success" ELSE "warning")
    ELSE IF ~wifiTechPowered THEN "warning"
    ELSE IF wifiConnected /\ wifiInternetReachability = "online" THEN "success"
    ELSE IF wifiConnected /\ wifiInternetReachability # "online" THEN "warning"
    ELSE "error"

wifiSummaryPrimary(status) ==
    IF status = "success" THEN "Connected"
    ELSE IF status = "warning" THEN "Disabled / Optional"
    ELSE "Not Connected"

\* ethStatus overlooking the TX error count.
ethStatusRxOnly(ethLinkDetected, ethInternet, ethRxErrors, ethTxErrors) ==
    IF ethLinkDetected = "Yes" /\ ethInternet = "online" /\ ethRxErrors = 0
    THEN "success"
    ELSE IF ethLinkDetected # "Yes" \/ ethInternet # "online" THEN "error"
    ELSE "warning"

ethStatus(ethLinkDetected, ethInternet, ethRxErrors, ethTxErrors) ==
    IF ethLinkDetected = "Yes" /\ ethInternet = "online"
       /\ ethRxErrors = 0 /\ ethTxErrors = 0
    THEN "success"
    ELSE IF ethLinkDetected # "Yes" \/ ethInternet # "online" THEN "error"
    ELSE "warning"

\* cellStatus taking every reachability other than "offline" as online.
cellStatusNotOffline(cellInternetReachability, cellPacketLossPct, cellStrength) ==
    IF cellInternetReachability # "offline" /\ cellPacketLossPct <= Pct(2)
    THEN (IF cellStrength >= 40 THEN "success" ELSE "warning")
    ELSE IF cellInternetReachability = "offline" THEN "error"
    ELSE "warning"

\* cellStatus with the strength threshold exclusive.
cellStatusStrictStrength(cellInternetReachability, cellPacketLossPct, cellStrength) ==
    IF cellInternetReachability = "online" /\ cellPacketLossPct <= Pct(2)
    THEN (IF cellStrength > 40 THEN "success" ELSE "warning")
    ELSE IF cellInternetReachability # "online" THEN "error"
    ELSE "warning"

cellStatus(cellInternetReachability, cellPacketLossPct, cellStrength) ==
    IF cellInternetReachability = "online" /\ cellPacketLossPct <= Pct(2)
    THEN (IF cellStrength >= 40 THEN "success" ELSE "warning")
    ELSE IF cellInternetReachability # "online" THEN "error"
    ELSE "warning"

\* satelliteStatus reporting an enabled but offline modem as an error.
satelliteStatusOfflineError(enabled, state) ==
    IF enabled /\ state = "ready" THEN "success"
    ELSE IF enabled /\ state = "offline" THEN "error"
    ELSE "warning"

satelliteStatus(enabled, state) ==
    IF enabled /\ state = "ready" THEN "success"
    ELSE IF enabled /\ state = "offline" THEN "warning"
    ELSE "warning"

\* ------------------------------------------------------------- diagCards

\* The three-way summaryPrimary ternaries of the cards.
ethSummaryPrimary(status) ==
    IF status = "success" THEN "Connected"
    ELSE IF status = "warning" THEN "Degraded" ELSE "Offline"

cellSummaryPrimary(status) ==
    IF status = "success" THEN "Connected"
    ELSE IF status = "warning" THEN "Degraded" ELSE "Offline"

satSummaryPrimary(enabled, state) ==
    IF enabled THEN (IF state = "ready" THEN "Ready" ELSE "Offline")
    ELSE "Not Configured"

powerSummaryPrimary(status) ==
    IF status = "success" THEN "Normal"
    ELSE IF status = "warning" THEN "Marginal" ELSE "Out of range"

manifoldSummaryPrimary(status) ==
    IF status = "success" THEN "Normal"
    ELSE IF status = "warning" THEN "Marginal" ELSE "Low"

sourceSummaryPrimary(status) ==
    IF status = "success" THEN "Normal"
    ELSE IF status = "warning" THEN "Marginal" ELSE "Low"

cloudSummaryPrimary(status) ==
    IF status = "success" THEN "Synced"
    ELSE IF status = "warning" THEN "Delayed" ELSE "Offline"

firmwareSummaryPrimary(status) ==
    IF status = "success" THEN "Current"
    ELSE IF status = "warning" THEN "Update available" ELSE "Unsupported"

\* wifiRemediation attaching a block to the error status only.
wifiRemediationErrorOnly(status) ==
    IF status = "error"
    THEN << [ title |-> "Action Required",
              actions |-> << [label |-> "Configure Wi" \o NBH \o "Fi Network",
                              kind |-> "goToNetwork"],
                             [label |-> "Wi" \o NBH \o "Fi Rulebook",
                              kind |-> "openCheatSheet"] >> ] >>
    ELSE << >>

\* The Wi-Fi card's remediation block (undefined is <<>>).
wifiRemediation(status) ==
    IF status = "error"
    THEN << [ title |-> "Action Required",
              actions |-> << [label |-> "Configure Wi" \o NBH \o "Fi Network",
                              kind |-> "goToNetwork"],
                             [label |-> "Wi" \o NBH \o "Fi Rulebook",
                              kind |-> "openCheatSheet"] >> ] >>
    ELSE IF status = "warning"
    THEN << [ title |-> "Optional",
              actions |-> << [label |-> "Enable / Configure Wi" \o NBH
                                        \o "Fi (optional backup)",
                              kind |-> "goToNetwork"] >> ] >>
    ELSE << >>

Card(id, title, status, summaryPrimary, remediation) ==
    [ id |-> id, title |-> title, status |-> status,
      summaryPrimary |-> summaryPrimary, remediation |-> remediation ]

\* The Wi-Fi card with its "Provisioned via Matter" details row.
WifiCard(status, provisioned) ==
    [ id |-> "wifi", title |-> "Wi" \o NBH \o "Fi", status |-> status,
      summaryPrimary |-> wifiSummaryPrimary(status),
      details |-> << [ label |-> "Provisioned via Matter",
                       value |-> IF provisioned THEN "Yes" ELSE "No" ] >>,
      remediation |-> wifiRemediation(status) ]

\* DiagCardList with the power card ahead of the satellite card.
DiagCardListPowerFirst(eth, wifi, provisioned, cell, sat, satSummary, power, manifold, source, cloud, firmware) ==
    << Card("ethernet", "Ethernet", eth, ethSummaryPrimary(eth), <<>>),
       WifiCard(wifi, provisioned),
       Card("cellular", "Cellular", cell, cellSummaryPrimary(cell), <<>>),
       Card("power", "Power", power, powerSummaryPrimary(power), <<>>),
       Card("satellite", "Satellite", sat, satSummary, <<>>),
       Card("manifold", "Manifold Pressure", manifold,
            manifoldSummaryPrimary(manifold), <<>>),
       Card("source", "Source Pressure", source, sourceSummaryPrimary(source), <<>>),
       Card("cloud", "Cloud Sync", cloud, cloudSummaryPrimary(cloud), <<>>),
       Card("firmware", "Firmware", firmware, firmwareSummaryPrimary(firmware), <<>>) >>

\* The array literal returned by the useMemo callback, in declaration order.
DiagCardList(eth, wifi, provisioned, cell, sat, satSummary, power, manifold, source, cloud, firmware) ==
    << Card("ethernet", "Ethernet", eth, ethSummaryPrimary(eth), <<>>),
       WifiCard(wifi, provisioned),
       Card("cellular", "Cellular", cell, cellSummaryPrimary(cell), <<>>),
       Card("satellite", "Satellite", sat, satSummary, <<>>),
       Card("power", "Power", power, powerSummaryPrimary(power), <<>>),
       Card("manifold", "Manifold Pressure", manifold,
            manifoldSummaryPrimary(manifold), <<>>),
       Card("source", "Source Pressure", source, sourceSummaryPrimary(source), <<>>),
       Card("cloud", "Cloud Sync", cloud, cloudSummaryPrimary(cloud), <<>>),
       Card("firmware", "Firmware", firmware, firmwareSummaryPrimary(firmware), <<>>) >>

\* diagCards as the component computes it from a snapshot s and the state it reads.
computeDiagCards(s, provisioned, provisionedSsid, backup) ==
    DiagCardList(
        ethStatus(s.ethLinkDetected, s.ethInternet, s.ethRxErrors, s.ethTxErrors),
        wifiStatus(wifiProvisioned(provisioned, provisionedSsid),
                   s.wifiTechPowered, s.wifiConnected, s.wifiInternetReachability),
        wifiProvisioned(provisioned, provisionedSsid),
        cellStatus(s.cellInternetReachability, s.cellPacketLossPct, s.cellStrength),
        satelliteStatus(satEnabled(backup), s.satStatus),
        satSummaryPrimary(satEnabled(backup), s.satStatus),
        powerStatus(s.voltage),
        manifoldStatus(s.manifoldPsi),
        sourceStatus(s.sourcePsi),
        cloudStatus(s.cloudReachable, s.cloudPingMs),
        firmwareStatus(s.firmwareSupported, s.firmwareUpdateAvailable))

\* ------------------------------------------------------------- aggregator

some(cards, status) == \E i \in 1..Len(cards) : cards[i].status = status

\* filterIssues keeping the errors only.
filterErrors(cards) == SelectSeq(cards, LAMBDA d : d.status = "error")

\* diagCards.filter((d) => d.status !== "success")
filterIssues(cards) == SelectSeq(cards, LAMBDA d : d.status # "success")

\* .slice(0, 3)
sliceIssues(cards) == SubSeq(cards, 1, Min(3, Len(cards)))

\* .map((d) => `${d.title}: ${d.summaryPrimary}`)
mapIssues(cards) ==
    [i \in 1..Len(cards) |-> cards[i].title \o ": " \o cards[i].summaryPrimary]

\* topIssues ranked by severity: errors ahead of warnings.
topIssuesBySeverity(cards) ==
    mapIssues(sliceIssues(SelectSeq(cards, LAMBDA d : d.status = "error")
                          \o SelectSeq(cards, LAMBDA d : d.status = "warning")))

topIssues(cards) == mapIssues(sliceIssues(filterIssues(cards)))

statusLabel(cards) ==
    IF some(cards, "error") THEN "Needs Attention"
    ELSE IF some(cards, "warning") THEN "Good (with advisories)"
    ELSE "Excellent"

\* The list under the Overview heading.
issueLines(issues) ==
    IF Len(issues) = 0 THEN << "* All diagnostics passed." >>
    ELSE [i \in 1..Len(issues) |-> "* " \o issues[i]]

OverallStatusCard(cards) ==
    [ statusLabel |-> statusLabel(cards),
      topIssues |-> topIssues(cards),
      lines |-> issueLines(topIssues(cards)) ]

\* The "Overall Status" SummaryRow of the Network Status card.
overallStatusRow(cards) ==
    IF some(cards, "error") THEN "Needs attention"
    ELSE IF some(cards, "warning") THEN "Good"
    ELSE "Excellent"

NotRendered == [ card |-> [statusLabel |-> "", topIssues |-> <<>>, lines |-> <<>>],
                 row |-> "" ]

\* ---------------------------------------------------------------- rulebook

WiFi == "Wi" \o NBH \o "Fi"

RULEBOOK == <<
    [ id |-> "ethernet",
      title |-> "Ethernet",
      intent |-> "Proves wired connectivity is stable enough for cloud sync and commissioning.",
      green |-> << "Link detected = Yes (ethtool)",
                   "Duplex = Full (ethtool)",
                   "IPv4 address present (ifconfig)",
                   "Internet reachable = Online (ethernet-check)",
                   "Packet loss <= 2% (ethernet-check)" >>,
      yellow |-> << "Packet loss > 2% and <= 10%",
                    "Speed lower than expected (e.g., 100 Mb/s when Gigabit is available)",
                    "RX drops increasing (but errors remain 0)" >>,
      red |-> << "Link detected = No",
                 "No IPv4 address",
                 "Internet unreachable",
                 "Packet loss > 10%",
                 "RX/TX errors > 0",
                 "Duplex mismatch or link flapping" >>,
      recommendedActions |-> <<
          "Reseat/replace Ethernet cable with known-good cable",
          "Try a different router/switch port",
          "Re-run diagnostics",
          "If still failing: use " \o WiFi
              \o "/Cellular and flag controller/cable/router for follow-up" >> ],
    [ id |-> "wifi",
      title |-> WiFi,
      intent |-> "Verifies " \o WiFi
                 \o " provisioning and link quality for primary or backup connectivity.",
      green |-> << "Connected to SSID", "Internet reachable", "Strength >= 60/100" >>,
      yellow |-> << WiFi \o " disabled (optional)", "Strength 30-59/100",
                    "High latency or intermittent loss" >>,
      red |-> << "Not connected (when expected)", "No internet reachability",
                 "Technology disabled unexpectedly" >>,
      recommendedActions |-> <<
          "Use Current " \o WiFi \o " via Matter (fast path)",
          "Provision Selected " \o WiFi \o " via Matter",
          "Move closer / choose stronger SSID",
          "Confirm passcode",
          "Use Ethernet/Cellular as fallback" >> ],
    [ id |-> "cellular",
      title |-> "Cellular",
      intent |-> "Verifies cellular modem is registered and usable as backup or primary uplink.",
      green |-> << "Internet reachable", "Packet loss <= 2%", "Signal >= 40/100" >>,
      yellow |-> << "Signal 20-39/100", "Latency high (still usable)", "Intermittent loss" >>,
      red |-> << "Internet unreachable", "No provider / no session", "Packet loss > 10%" >>,
      recommendedActions |-> <<
          "Check antenna/placement",
          "Verify SIM active",
          "Reboot modem/controller",
          "Escalate to support if still no session" >> ],
    [ id |-> "satellite",
      title |-> "Satellite",
      intent |-> "Confirms satellite backup is available when enabled.",
      green |-> << "Enabled and ready", "Recent successful contact" >>,
      yellow |-> << "Enabled but not currently connected", "Provisioned but idle" >>,
      red |-> << "Enabled but offline / fault", "No modem detected" >>,
      recommendedActions |-> <<
          "Confirm satellite backup enabled",
          "Check antenna placement",
          "Re-run satellite diagnostic",
          "Escalate if modem not detected" >> ],
    [ id |-> "power",
      title |-> "Power",
      intent |-> "Ensures controller supply voltage is within safe operating range.",
      green |-> << "12.0-15.0 V" >>,
      yellow |-> << "11.0-11.9 V", "15.1-16.0 V" >>,
      red |-> << "< 11.0 V", "> 16.0 V" >>,
      recommendedActions |-> <<
          "Check power supply and wiring",
          "Verify battery/solar configuration",
          "Measure with multimeter if readings look wrong" >> ],
    [ id |-> "manifold",
      title |-> "Manifold Pressure",
      intent |-> "Indicates pressure on the distribution/manifold side.",
      green |-> << "Pressure within expected operating range" >>,
      yellow |-> << "Pressure marginal (near limits)", "Pressure unstable" >>,
      red |-> << "Pressure too low for operation", "Pressure too high / unsafe" >>,
      recommendedActions |-> <<
          "Check pump/valves state",
          "Verify supply and filters",
          "Re-run pressure test" >> ],
    [ id |-> "source",
      title |-> "Source Pressure",
      intent |-> "Indicates supply pressure available from the water source.",
      green |-> << "Source pressure within expected range" >>,
      yellow |-> << "Low but usable", "Fluctuating" >>,
      red |-> << "No pressure / very low", "Unstable / unreliable source" >>,
      recommendedActions |-> <<
          "Check supply valve/source",
          "Confirm tank level / municipal pressure",
          "Inspect intake/strainer" >> ],
    [ id |-> "cloud",
      title |-> "Cloud Sync",
      intent |-> "Confirms controller can reach Frontline cloud services reliably.",
      green |-> << "Ping succeeds", "Recent sync timestamp" >>,
      yellow |-> << "Slow ping", "Delayed sync" >>,
      red |-> << "Cannot reach endpoint", "No sync" >>,
      recommendedActions |-> <<
          "Fix underlying network (Ethernet/" \o WiFi \o "/Cellular)",
          "Re-run diagnostics",
          "Confirm endpoint configured" >> ],
    [ id |-> "firmware",
      title |-> "Firmware",
      intent |-> "Shows installed firmware version and whether an update is recommended.",
      green |-> << "Version current / supported" >>,
      yellow |-> << "Update available (recommended)" >>,
      red |-> << "Unsupported / blocked version" >>,
      recommendedActions |-> <<
          "Schedule update",
          "Confirm update window and connectivity",
          "Escalate if version is blocked" >> ] >>

\* RULEBOOK.find((r) => r.id === id): the first entry with that id, << >> for
\* undefined.
find(id) ==
    IF \E i \in 1..Len(RULEBOOK) : RULEBOOK[i].id = id
    THEN << RULEBOOK[CHOOSE i \in 1..Len(RULEBOOK) :
                        /\ RULEBOOK[i].id = id
                        /\ \A j \in 1..(i - 1) : RULEBOOK[j].id # id] >>
    ELSE << >>

\* const selected = RULEBOOK.find(...) ?? RULEBOOK[0]
selectedEntry(id) == IF find(id) # << >> THEN find(id)[1] ELSE RULEBOOK[1]

\* useState<string>(focus ?? "ethernet"), then the effect
\* if (focus) setSelectedId(focus): both leave the focus when there is one.
initialSelectedId(focus) == IF focus = NULL THEN "ethernet" ELSE focus

\* ----------------------------------------------------------------- actions

\* One evaluation pass: the useMemo callback computes the nine verdicts.
Evaluate ==
    /\ pass = "snapshot"
    /\ diagCards' = computeDiagCards(m, matterWifiProvisioned, matterProvisionedSsid,
                                     satelliteBackup)
    /\ wifiChannel' = wifiChannelFromFreqMHz(m.wifiFreqMHz)
    /\ wifiGlyph' = wifiStrengthGlyph(m.wifiStrengthPercent)
    /\ pass' = "verdicts"
    /\ UNCHANGED <<m, matterWifiProvisioned, matterProvisionedSsid, satelliteBackup,
                   overall>>
    /\ UNCHANGED modal
    /\ UNCHANGED wizard

\* The Done step renders the Overall Status row and the OverallStatusCard.
Aggregate ==
    /\ pass = "verdicts"
    /\ overall' = [ card |-> OverallStatusCard(diagCards),
                    row |-> overallStatusRow(diagCards) ]
    /\ pass' = "summary"
    /\ UNCHANGED <<m, matterWifiProvisioned, matterProvisionedSsid, satelliteBackup,
                   diagCards, wifiChannel, wifiGlyph>>
    /\ UNCHANGED modal
    /\ UNCHANGED wizard

\* ------------------------------------------------- evaluator specification

WithDemoState ==
    /\ matterWifiProvisioned = FALSE
    /\ matterProvisionedSsid = NULL
    /\ satelliteBackup = "Yes"

NotComputed ==
    /\ wifiChannel = NULL
    /\ wifiGlyph = ""

\* new Date().toISOString().slice(0, 10) when the component mounts: one date
\* stands for the day of the installation.
Today == "2025-06-01"

\* The useState initial values of the wizard, app.tsx:222-269.
WizardInitial ==
    /\ stepIndex = 0
    /\ customerName = "Will Durness"
    /\ installLocation = "10555 Quality Road; Quality, CA"
    /\ installDate = Today
    /\ serial = NULL
    /\ matterPaired = FALSE
    /\ matterAttested = FALSE
    /\ primaryInterface = "Ethernet"
    /\ selectedWifi = wifiNetworks[1].ssid
    /\ wifiPassword = ""
    /\ usePairingDeviceNetwork = TRUE
    /\ cellularBackup = "Yes"
    /\ hhcType = "MP3"
    /\ foamInstalled = "Yes"
    /\ drainCycle = "Yes"
    /\ zones = << [id |-> 1, type |-> "Roof", name |-> "Roof Zone 1"] >>
    /\ openDiagId = NULL

\* The rulebook modal is not shown.
ModalClosed ==
    /\ rulebookOpen = FALSE
    /\ rulebookFocus = NULL
    /\ selectedId = << >>
    /\ selected = << >>

\* Snapshots: the demo datasets with the inputs of one subsystem replaced.
InitEval ==
    /\ diagCards = << >>
    /\ overall = NotRendered
    /\ pass = "snapshot"
    /\ NotComputed
    /\ ModalClosed
    /\ WizardInitial
    /\ \/ /\ m \in {[Demo EXCEPT !.voltage = v] : v \in 0..MaxCentiVolts}
          /\ WithDemoState
       \/ /\ m \in {[Demo EXCEPT !.ethLinkDetected = l, !.ethInternet = r,
                                 !.ethRxErrors = rx, !.ethTxErrors = tx,
                                 !.ethRxDropped = d, !.ethSpeed = sp] :
                      l \in YesNo, r \in Reachability,
                      rx \in 0..MaxErrCount, tx \in 0..MaxErrCount,
                      d \in {0, Demo.ethRxDropped},
                      sp \in {"1000 Mb/s", "100 Mb/s"}}
          /\ WithDemoState
       \/ /\ m \in {[Demo EXCEPT !.wifiTechPowered = p, !.wifiConnected = c,
                                 !.wifiInternetReachability = r] :
                      p \in BOOLEAN, c \in BOOLEAN, r \in Reachability}
          /\ matterWifiProvisioned \in BOOLEAN
          /\ matterProvisionedSsid \in Ssids \cup {NULL}
          /\ satelliteBackup = "Yes"
       \/ /\ m \in {[Demo EXCEPT !.cellInternetReachability = r,
                                 !.cellPacketLossPct = l, !.cellStrength = g] :
                      r \in Reachability, l \in 0..MaxDeciLoss, g \in 0..MaxStrength}
          /\ WithDemoState
       \/ /\ m \in {[Demo EXCEPT !.wifiFreqMHz = f] :
                      f \in {<<>>} \cup {<<x>> : x \in 0..MaxFreqMHz}}
          /\ WithDemoState
       \/ /\ m \in {[Demo EXCEPT !.wifiStrengthPercent = g] :
                      g \in {<<>>} \cup {<<x>> : x \in (0 - StrengthMargin)
                                                      ..(MaxStrength + StrengthMargin)}}
          /\ WithDemoState
       \/ /\ m \in {[Demo EXCEPT !.satStatus = st] : st \in SatStates}
          /\ matterWifiProvisioned = FALSE
          /\ matterProvisionedSsid = NULL
          /\ satelliteBackup \in YesNo
       \/ /\ m \in {[Demo EXCEPT !.manifoldPsi = p] : p \in 0..MaxDeciPsi}
                   \cup {[Demo EXCEPT !.manifoldPsi = p, !.sourcePsi = p] :
                           p \in 0..MaxDeciPsi}
          /\ WithDemoState
       \/ /\ m \in {[Demo EXCEPT !.sourcePsi = p] : p \in 0..MaxDeciPsi}
          /\ WithDemoState
       \/ /\ m \in {[Demo EXCEPT !.cloudReachable = r, !.cloudPingMs = t] :
                      r \in BOOLEAN, t \in 0..MaxPingMs}
          /\ WithDemoState
       \/ /\ m \in {[Demo EXCEPT !.firmwareSupported = f, !.firmwareUpdateAvailable = u] :
                      f \in BOOLEAN, u \in BOOLEAN}
          /\ WithDemoState

NextEval == Evaluate \/ Aggregate

SpecEval == InitEval /\ [][NextEval]_vars

\* ------------------------------------------------ aggregator specification

\* Every assignment of statuses to the nine verdicts, as OverallStatusCard's prop.
InitAgg ==
    /\ m = Demo
    /\ WithDemoState
    /\ overall = NotRendered
    /\ NotComputed
    /\ ModalClosed
    /\ WizardInitial
    /\ pass = "verdicts"
    /\ diagCards \in
         { DiagCardList(s[1], s[2], FALSE, s[3], s[4], sum, s[5], s[6], s[7], s[8], s[9]) :
             s \in [1..9 -> Status], sum \in {"Ready", "Offline", "Not Configured"} }

NextAgg == Aggregate

SpecAgg == InitAgg /\ [][NextAgg]_vars

\* ------------------------------------------------------------------ wizard

STEPS == << "QR Scan", "Station", "System", "Network", "Tests", "Done" >>

\* const step = STEPS[stepIndex] ?? "QR Scan"
step(index) == IF index \in 0..(Len(STEPS) - 1) THEN STEPS[index + 1] ELSE "QR Scan"

\* STEPS.indexOf(target): the 0-based index, -1 when absent.
indexOf(target) ==
    IF \E i \in 1..Len(STEPS) : STEPS[i] = target
    THEN (CHOOSE i \in 1..Len(STEPS) : STEPS[i] = target) - 1
    ELSE 0 - 1

ZoneTypes == { "Roof", "Eave", "Roof + Eave", "Perimeter" }

\* Text typed into an input field.
TextInputs == { "Attic" }

\* Math.floor(Math.random() * 10000): the least and the greatest draw.
RandomDraws == { 0, 10000 - 1 }

\* The option texts of the Primary Network Interface select; the second one
\* is spelled with U+2011.
primaryInterfaceOptions == { "Ethernet", "Wi" \o NBH \o "Fi", "Cellular" }

provisioning == <<matterWifiProvisioned, matterProvisionedSsid>>

\* The render that follows a state update, an evaluation pass of its own: the
\* derived constant satStatus, the useMemo of diagCards and, on the Done step,
\* the overall status.
Render ==
    /\ m' = [m EXCEPT !.satStatus = satStatus(satEnabled(satelliteBackup'))]
    /\ diagCards' = computeDiagCards(m', matterWifiProvisioned',
                                     matterProvisionedSsid', satelliteBackup')
    /\ overall' = IF step(stepIndex') = "Done"
                  THEN [ card |-> OverallStatusCard(diagCards'),
                         row |-> overallStatusRow(diagCards') ]
                  ELSE NotRendered
    /\ pass' = "verdicts"
    /\ UNCHANGED <<wifiChannel, wifiGlyph>>

\* The modal's backdrop covers the page (fixed inset-0): the page's controls are
\* reached only while the modal is closed.
pageShown(name) == ~rulebookOpen /\ step(stepIndex) = name

\* --- navigation

\* nextIndex advancing two steps at a time.
nextIndexSkipping(s) == Min(s + 2, Len(STEPS) - 1)

\* nextIndex without the clamp at the last step.
nextIndexUnclamped(s) == s + 1

\* The updaters of next and back.
nextIndex(s) == Min(s + 1, Len(STEPS) - 1)

backIndex(s) == Max(s - 1, 0)

\* "Continue Setup" (disabled without a serial), the Continue buttons of
\* NavButtons and "Complete Setup"; the Done step has no such button.
next ==
    /\ ~rulebookOpen
    /\ \/ step(stepIndex) = "QR Scan" /\ serial # NULL /\ serial # ""
       \/ step(stepIndex) \in {"Station", "System", "Network", "Tests"}
    /\ stepIndex' = nextIndex(stepIndex)
    /\ UNCHANGED <<identity, station, system, network, openDiagId, modal,
                   provisioning, satelliteBackup>>
    /\ Render

\* The header's Back button (disabled at index 0) and the Back buttons of the
\* steps.
back ==
    /\ ~rulebookOpen
    /\ stepIndex # 0
    /\ stepIndex' = backIndex(stepIndex)
    /\ UNCHANGED <<identity, station, system, network, openDiagId, modal,
                   provisioning, satelliteBackup>>
    /\ Render

\* A click on step bubble i of the progress bar.
setStepIndex(i) ==
    /\ ~rulebookOpen
    /\ stepIndex' = i
    /\ UNCHANGED <<identity, station, system, network, openDiagId, modal,
                   provisioning, satelliteBackup>>
    /\ Render

simulateQrScan ==
    /\ pageShown("QR Scan")
    /\ \E draw \in RandomDraws : serial' = "3600" \o String(draw)
    /\ matterPaired' = TRUE
    /\ matterAttested' = TRUE
    /\ UNCHANGED <<stepIndex, station, system, network, openDiagId, modal,
                   provisioning, satelliteBackup>>
    /\ Render

\* --- Station step

setCustomerName(v) ==
    /\ pageShown("Station")
    /\ customerName' = v
    /\ UNCHANGED <<stepIndex, identity, installLocation, installDate, system, network,
                   openDiagId, modal, provisioning, satelliteBackup>>
    /\ Render

setInstallLocation(v) ==
    /\ pageShown("Station")
    /\ installLocation' = v
    /\ UNCHANGED <<stepIndex, identity, customerName, installDate, system, network,
                   openDiagId, modal, provisioning, satelliteBackup>>
    /\ Render

setInstallDate(v) ==
    /\ pageShown("Station")
    /\ installDate' = v
    /\ UNCHANGED <<stepIndex, identity, customerName, installLocation, system, network,
                   openDiagId, modal, provisioning, satelliteBackup>>
    /\ Render

\* --- System step

setHhcType(v) ==
    /\ pageShown("System")
    /\ hhcType' = v
    /\ UNCHANGED <<stepIndex, identity, station, foamInstalled, drainCycle, zones,
                   network, openDiagId, modal, provisioning, satelliteBackup>>
    /\ Render

setFoamInstalled(v) ==
    /\ pageShown("System")
    /\ foamInstalled' = v
    /\ UNCHANGED <<stepIndex, identity, station, hhcType, drainCycle, zones,
                   network, openDiagId, modal, provisioning, satelliteBackup>>
    /\ Render

setDrainCycle(v) ==
    /\ pageShown("System")
    /\ drainCycle' = v
    /\ UNCHANGED <<stepIndex, identity, station, hhcType, foamInstalled, zones,
                   network, openDiagId, modal, provisioning, satelliteBackup>>
    /\ Render

\* prev.map((pz) => (pz.id === id ? { ...pz, type } : pz))
mapType(prev, id, type) ==
    [i \in 1..Len(prev) |-> IF prev[i].id = id THEN [prev[i] EXCEPT !.type = type]
                            ELSE prev[i]]

\* prev.map((pz) => (pz.id === id ? { ...pz, name } : pz))
mapName(prev, id, name) ==
    [i \in 1..Len(prev) |-> IF prev[i].id = id THEN [prev[i] EXCEPT !.name = name]
                            ELSE prev[i]]

\* appendZone numbering the new zone like the last one.
appendZoneReusingId(prev) ==
    LET id == Len(prev)
    IN  Append(prev, [id |-> id, type |-> "Roof", name |-> "Roof Zone " \o String(id)])

\* The setZones updater of addZone.
appendZone(prev) ==
    LET id == Len(prev) + 1
    IN  Append(prev, [id |-> id, type |-> "Roof", name |-> "Roof Zone " \o String(id)])

\* The type select of the row of zone z.
setZoneType(z, type) ==
    /\ pageShown("System")
    /\ zones' = mapType(zones, z.id, type)
    /\ UNCHANGED <<stepIndex, identity, station, hhcType, foamInstalled, drainCycle,
                   network, openDiagId, modal, provisioning, satelliteBackup>>
    /\ Render

\* The name input of the row of zone z.
setZoneName(z, name) ==
    /\ pageShown("System")
    /\ zones' = mapName(zones, z.id, name)
    /\ UNCHANGED <<stepIndex, identity, station, hhcType, foamInstalled, drainCycle,
                   network, openDiagId, modal, provisioning, satelliteBackup>>
    /\ Render

addZone ==
    /\ pageShown("System")
    /\ Len(zones) < MaxZones
    /\ zones' = appendZone(zones)
    /\ UNCHANGED <<stepIndex, identity, station, hhcType, foamInstalled, drainCycle,
                   network, openDiagId, modal, provisioning, satelliteBackup>>
    /\ Render

\* --- Network step

provisionViaMatterUsingCurrentWifi ==
    /\ pageShown("Network")
    /\ primaryInterface' = "Wi-Fi"
    /\ usePairingDeviceNetwork' = TRUE
    /\ selectedWifi' = pairingDeviceSsid
    /\ matterWifiProvisioned' = TRUE
    /\ matterProvisionedSsid' = pairingDeviceSsid
    /\ UNCHANGED <<stepIndex, identity, station, system, wifiPassword, cellularBackup,
                   openDiagId, modal, satelliteBackup>>
    /\ Render

\* chooseWifi that selects only.
chooseWifiSelectOnly(ssid) ==
    /\ pageShown("Network")
    /\ selectedWifi' = ssid
    /\ primaryInterface' = "Wi-Fi"
    /\ usePairingDeviceNetwork' = (ssid = pairingDeviceSsid)
    /\ UNCHANGED <<stepIndex, identity, station, system, wifiPassword, cellularBackup,
                   openDiagId, modal, provisioning, satelliteBackup>>
    /\ Render

\* chooseWifi keeping the provisioning when the provisioned network is chosen.
chooseWifiKeeping(ssid) ==
    /\ pageShown("Network")
    /\ selectedWifi' = ssid
    /\ primaryInterface' = "Wi-Fi"
    /\ usePairingDeviceNetwork' = (ssid = pairingDeviceSsid)
    /\ matterWifiProvisioned' = (matterWifiProvisioned /\ matterProvisionedSsid = ssid)
    /\ matterProvisionedSsid' = IF matterWifiProvisioned /\ matterProvisionedSsid = ssid
                                THEN ssid ELSE NULL
    /\ UNCHANGED <<stepIndex, identity, station, system, wifiPassword, cellularBackup,
                   openDiagId, modal, satelliteBackup>>
    /\ Render

\* "Use pairing device network" and the rows of the network list.
chooseWifi(ssid) ==
    /\ pageShown("Network")
    /\ selectedWifi' = ssid
    /\ primaryInterface' = "Wi-Fi"
    /\ usePairingDeviceNetwork' = (ssid = pairingDeviceSsid)
    /\ matterWifiProvisioned' = FALSE
    /\ matterProvisionedSsid' = NULL
    /\ UNCHANGED <<stepIndex, identity, station, system, wifiPassword, cellularBackup,
                   openDiagId, modal, satelliteBackup>>
    /\ Render

\* "Provision Selected Wi-Fi via Matter".
provisionSelectedWifi ==
    /\ pageShown("Network")
    /\ matterWifiProvisioned' = TRUE
    /\ matterProvisionedSsid' = selectedWifi
    /\ UNCHANGED <<stepIndex, identity, station, system, network, openDiagId, modal,
                   satelliteBackup>>
    /\ Render

\* setPrimaryInterface dropping the provisioning along with the choice.
setPrimaryInterfaceResetting(v) ==
    /\ pageShown("Network")
    /\ primaryInterface' = v
    /\ matterWifiProvisioned' = FALSE
    /\ matterProvisionedSsid' = NULL
    /\ UNCHANGED <<stepIndex, identity, station, system, selectedWifi, wifiPassword,
                   usePairingDeviceNetwork, cellularBackup, openDiagId, modal,
                   satelliteBackup>>
    /\ Render

\* The Primary Network Interface select: e.target.value is the option's text.
setPrimaryInterface(v) ==
    /\ pageShown("Network")
    /\ primaryInterface' = v
    /\ UNCHANGED <<stepIndex, identity, station, system, selectedWifi, wifiPassword,
                   usePairingDeviceNetwork, cellularBackup, openDiagId, modal,
                   provisioning, satelliteBackup>>
    /\ Render

setWifiPassword(v) ==
    /\ pageShown("Network")
    /\ wifiPassword' = v
    /\ UNCHANGED <<stepIndex, identity, station, system, primaryInterface, selectedWifi,
                   usePairingDeviceNetwork, cellularBackup, openDiagId, modal,
                   provisioning, satelliteBackup>>
    /\ Render

setCellularBackup(v) ==
    /\ pageShown("Network")
    /\ cellularBackup' = v
    /\ UNCHANGED <<stepIndex, identity, station, system, primaryInterface, selectedWifi,
                   wifiPassword, usePairingDeviceNetwork, openDiagId, modal,
                   provisioning, satelliteBackup>>
    /\ Render

setSatelliteBackup(v) ==
    /\ pageShown("Network")
    /\ satelliteBackup' = v
    /\ UNCHANGED <<stepIndex, identity, station, system, network, openDiagId, modal,
                   provisioning>>
    /\ Render

\* --- Tests step

\* The setStepIndex of goToStep(target): only a known step changes the index.
goToStep(target) ==
    LET idx == indexOf(target)
    IN  stepIndex' = IF idx >= 0 THEN idx ELSE stepIndex

\* The kinds of the remediation buttons an open card shows.
remediationKinds(c) ==
    IF c.remediation = << >> THEN {}
    ELSE {c.remediation[1].actions[k].kind : k \in 1..Len(c.remediation[1].actions)}

\* "Status Rulebook": the modal is mounted by the render that follows.
openRulebook ==
    /\ pageShown("Tests")
    /\ rulebookFocus' = NULL
    /\ rulebookOpen' = TRUE
    /\ selectedId' = << initialSelectedId(rulebookFocus') >>
    /\ selected' = << selectedEntry(initialSelectedId(rulebookFocus')) >>
    /\ UNCHANGED <<stepIndex, identity, station, system, network, openDiagId,
                   provisioning, satelliteBackup>>
    /\ Render

\* onToggle that closes the open card, whichever card is clicked.
onToggleCloseFirst(c) ==
    /\ pageShown("Tests")
    /\ openDiagId' = IF openDiagId # NULL THEN NULL ELSE c.id
    /\ UNCHANGED <<stepIndex, identity, station, system, network, modal,
                   provisioning, satelliteBackup>>
    /\ Render

\* A click on the header of card c.
onToggle(c) ==
    /\ pageShown("Tests")
    /\ openDiagId' = IF openDiagId = c.id THEN NULL ELSE c.id
    /\ UNCHANGED <<stepIndex, identity, station, system, network, modal,
                   provisioning, satelliteBackup>>
    /\ Render

\* onRemediation opening the rulebook without a focus.
onRemediationUnfocused(c, kind) ==
    /\ pageShown("Tests")
    /\ openDiagId = c.id
    /\ kind \in remediationKinds(c)
    /\ IF kind = "goToNetwork"
       THEN /\ goToStep("Network")
            /\ UNCHANGED modal
       ELSE IF kind = "openCheatSheet"
       THEN /\ rulebookFocus' = NULL
            /\ rulebookOpen' = TRUE
            /\ selectedId' = << initialSelectedId(rulebookFocus') >>
            /\ selected' = << selectedEntry(initialSelectedId(rulebookFocus')) >>
            /\ UNCHANGED stepIndex
       ELSE UNCHANGED <<stepIndex, modal>>
    /\ UNCHANGED <<identity, station, system, network, openDiagId,
                   provisioning, satelliteBackup>>
    /\ Render

\* A click on a remediation button of the open card c.
onRemediation(c, kind) ==
    /\ pageShown("Tests")
    /\ openDiagId = c.id
    /\ kind \in remediationKinds(c)
    /\ IF kind = "goToNetwork"
       THEN /\ goToStep("Network")
            /\ UNCHANGED modal
       ELSE IF kind = "openCheatSheet"
       THEN /\ rulebookFocus' = c.id
            /\ rulebookOpen' = TRUE
            /\ selectedId' = << initialSelectedId(rulebookFocus') >>
            /\ selected' = << selectedEntry(initialSelectedId(rulebookFocus')) >>
            /\ UNCHANGED stepIndex
       ELSE UNCHANGED <<stepIndex, modal>>
    /\ UNCHANGED <<identity, station, system, network, openDiagId,
                   provisioning, satelliteBackup>>
    /\ Render

\* -------------------------------------------------- rulebook specification

\* The focus prop of RulebookModal is string | null: the nine subsystem ids,
\* null, and strings that are no subsystem id.
FocusProps ==
    {RULEBOOK[i].id : i \in 1..Len(RULEBOOK)}
        \cup {NULL, "gps", "", "Ethernet", "wifi ", "zones"}

\* RulebookModal is rendered with its focus prop.
MountRulebookModal ==
    /\ ~rulebookOpen
    /\ rulebookOpen' = TRUE
    /\ selectedId' = << initialSelectedId(rulebookFocus) >>
    /\ selected' = << selectedEntry(initialSelectedId(rulebookFocus)) >>
    /\ UNCHANGED rulebookFocus
    /\ UNCHANGED evaluation
    /\ UNCHANGED wizard

\* A click on an entry of the Systems list.
setSelectedId(id) ==
    /\ rulebookOpen
    /\ selectedId' = << id >>
    /\ selected' = << selectedEntry(id) >>
    /\ UNCHANGED <<rulebookOpen, rulebookFocus>>
    /\ UNCHANGED evaluation
    /\ UNCHANGED wizard

\* Close button or backdrop click: the modal is unmounted.
onClose ==
    /\ rulebookOpen
    /\ rulebookOpen' = FALSE
    /\ selectedId' = << >>
    /\ selected' = << >>
    /\ UNCHANGED rulebookFocus
    /\ UNCHANGED evaluation
    /\ UNCHANGED wizard

InitRulebook ==
    /\ m = Demo
    /\ WithDemoState
    /\ diagCards = computeDiagCards(Demo, FALSE, NULL, "Yes")
    /\ wifiChannel = wifiChannelFromFreqMHz(Demo.wifiFreqMHz)
    /\ wifiGlyph = wifiStrengthGlyph(Demo.wifiStrengthPercent)
    /\ overall = NotRendered
    /\ pass = "verdicts"
    /\ WizardInitial
    /\ rulebookOpen = FALSE
    /\ rulebookFocus \in FocusProps
    /\ selectedId = << >>
    /\ selected = << >>

NextRulebook ==
    \/ MountRulebookModal
    \/ \E i \in 1..Len(RULEBOOK) : setSelectedId(RULEBOOK[i].id)
    \/ onClose

SpecRulebook == InitRulebook /\ [][NextRulebook]_vars

\* ---------------------------------------------------- wizard specifications

\* The demo datasets, and the same with the Wi-Fi link down.
WifiDown == [Demo EXCEPT !.wifiConnected = FALSE, !.wifiInternetReachability = "offline"]

Snapshots == {Demo, WifiDown}

\* The component after its first render, for the datasets s.
Mounted(s) ==
    /\ m = s
    /\ WithDemoState
    /\ WizardInitial
    /\ ModalClosed
    /\ diagCards = computeDiagCards(s, FALSE, NULL, "Yes")
    /\ wifiChannel = wifiChannelFromFreqMHz(s.wifiFreqMHz)
    /\ wifiGlyph = wifiStrengthGlyph(s.wifiStrengthPercent)
    /\ overall = NotRendered
    /\ pass = "verdicts"

Navigate ==
    \/ next
    \/ back
    \/ \E i \in 0..(Len(STEPS) - 1) : setStepIndex(i)

\* Navigation, the QR Scan step and the Network step.
Init == \E s \in Snapshots : Mounted(s)

Next ==
    \/ Navigate
    \/ simulateQrScan
    \/ provisionViaMatterUsingCurrentWifi
    \/ \E i \in 1..Len(wifiNetworks) : chooseWifi(wifiNetworks[i].ssid)
    \/ chooseWifi(pairingDeviceSsid)
    \/ provisionSelectedWifi
    \/ \E v \in primaryInterfaceOptions : setPrimaryInterface(v)
    \/ \E v \in TextInputs : setWifiPassword(v)
    \/ \E v \in YesNo : setCellularBackup(v)
    \/ \E v \in YesNo : setSatelliteBackup(v)

Spec == Init /\ [][Next]_vars

\* Navigation and the Tests step with its rulebook modal.
NextTests ==
    \/ Navigate
    \/ openRulebook
    \/ \E i \in 1..Len(diagCards) : onToggle(diagCards[i])
    \/ \E i \in 1..Len(diagCards), kind \in {"goToNetwork", "openCheatSheet"} :
           onRemediation(diagCards[i], kind)
    \/ \E i \in 1..Len(RULEBOOK) : setSelectedId(RULEBOOK[i].id)
    \/ onClose

SpecTests == Init /\ [][NextTests]_vars

\* Navigation and the zone list of the System step.
InitZones == Mounted(Demo)

NextZones ==
    \/ Navigate
    \/ addZone
    \/ \E i \in 1..Len(zones), type \in ZoneTypes : setZoneType(zones[i], type)
    \/ \E i \in 1..Len(zones), name \in TextInputs : setZoneName(zones[i], name)

SpecZones == InitZones /\ [][NextZones]_vars

\* One operation between two evaluation passes. The states before the
\* operation are states of the wizard with one screen's state set at a time:
\* any step, scanned or not, the network list untouched, a network chosen, or a
\* network chosen and provisioned, either satellite setting, any card open, and
\* on the Tests step the rulebook open or closed.
NetworkStates ==
    { [selected |-> wifiNetworks[1].ssid, primary |-> "Ethernet",
       provisioned |-> FALSE, ssid |-> NULL] }
    \cup { [selected |-> x, primary |-> "Wi-Fi", provisioned |-> FALSE, ssid |-> NULL] :
             x \in Ssids }
    \cup { [selected |-> x, primary |-> "Wi-Fi", provisioned |-> TRUE, ssid |-> x] :
             x \in Ssids }

InitFrame ==
    /\ pass = "first"
    /\ \E s \in Snapshots, backup \in YesNo :
          /\ satelliteBackup = backup
          /\ m = [s EXCEPT !.satStatus = satStatus(satEnabled(backup))]
    /\ stepIndex \in 0..(Len(STEPS) - 1)
    /\ \/ serial = NULL /\ matterPaired = FALSE /\ matterAttested = FALSE
       \/ serial = "3600" \o String(0) /\ matterPaired = TRUE /\ matterAttested = TRUE
    /\ \E n \in NetworkStates :
          /\ selectedWifi = n.selected
          /\ primaryInterface = n.primary
          /\ usePairingDeviceNetwork = (n.selected = pairingDeviceSsid)
          /\ matterWifiProvisioned = n.provisioned
          /\ matterProvisionedSsid = n.ssid
    /\ openDiagId \in {NULL} \cup {RULEBOOK[i].id : i \in 1..Len(RULEBOOK)}
    /\ \/ ModalClosed
       \/ /\ step(stepIndex) = "Tests"
          /\ rulebookOpen = TRUE
          /\ rulebookFocus = NULL
          /\ selectedId = << initialSelectedId(NULL) >>
          /\ selected = << selectedEntry(initialSelectedId(NULL)) >>
    /\ customerName = "Will Durness"
    /\ installLocation = "10555 Quality Road; Quality, CA"
    /\ installDate = Today
    /\ wifiPassword = ""
    /\ cellularBackup = "Yes"
    /\ hhcType = "MP3"
    /\ foamInstalled = "Yes"
    /\ drainCycle = "Yes"
    /\ zones = << [id |-> 1, type |-> "Roof", name |-> "Roof Zone 1"] >>
    /\ diagCards = computeDiagCards(m, matterWifiProvisioned, matterProvisionedSsid,
                                    satelliteBackup)
    /\ overall = IF step(stepIndex) = "Done"
                 THEN [ card |-> OverallStatusCard(diagCards),
                        row |-> overallStatusRow(diagCards) ]
                 ELSE NotRendered
    /\ wifiChannel = wifiChannelFromFreqMHz(m.wifiFreqMHz)
    /\ wifiGlyph = wifiStrengthGlyph(m.wifiStrengthPercent)

\* The operation op taken after the first pass.
Once(op) == pass = "first" /\ op

hhcTypeOptions == { "MP3", "HP6", "LV2", "Legacy" }

NextFrame ==
    \/ Once(next)
    \/ Once(back)
    \/ \E i \in 0..(Len(STEPS) - 1) : Once(setStepIndex(i))
    \/ Once(simulateQrScan)
    \/ \E v \in TextInputs : Once(setCustomerName(v))
    \/ \E v \in TextInputs : Once(setInstallLocation(v))
    \/ \E v \in TextInputs : Once(setInstallDate(v))
    \/ \E v \in hhcTypeOptions : Once(setHhcType(v))
    \/ \E v \in YesNo : Once(setFoamInstalled(v))
    \/ \E v \in YesNo : Once(setDrainCycle(v))
    \/ Once(addZone)
    \/ \E i \in 1..Len(zones), type \in ZoneTypes : Once(setZoneType(zones[i], type))
    \/ \E i \in 1..Len(zones), name \in TextInputs : Once(setZoneName(zones[i], name))
    \/ Once(provisionViaMatterUsingCurrentWifi)
    \/ \E x \in Ssids : Once(chooseWifi(x))
    \/ Once(provisionSelectedWifi)
    \/ \E v \in primaryInterfaceOptions : Once(setPrimaryInterface(v))
    \/ \E v \in TextInputs : Once(setWifiPassword(v))
    \/ \E v \in YesNo : Once(setCellularBackup(v))
    \/ \E v \in YesNo : Once(setSatelliteBackup(v))
    \/ Once(openRulebook)
    \/ \E i \in 1..Len(diagCards) : Once(onToggle(diagCards[i]))
    \/ \E i \in 1..Len(diagCards), kind \in {"goToNetwork", "openCheatSheet"} :
           Once(onRemediation(diagCards[i], kind))
    \/ \E i \in 1..Len(RULEBOOK) : Once(setSelectedId(RULEBOOK[i].id))
    \/ Once(onClose)

SpecFrame == InitFrame /\ [][NextFrame]_vars

\* The Continue buttons alone, pressed whenever one is offered: from any step,
\* scanned or not, with the rulebook open or closed.
NextProgress == next

SpecProgress == InitFrame /\ [][NextProgress]_vars /\ WF_vars(NextProgress)

\* ------------------------------------------------------------------ claims

evaluated == pass \in {"verdicts", "summary"}

verdict(id) == diagCards[CHOOSE i \in 1..Len(diagCards) : diagCards[i].id = id]

\* C1: power classification. For every supply voltage v (hundredths of a volt)
\* the power status is success iff 12.00 <= v <= 15.00, warning iff v is in
\* [11.00, 12.00) or (15.00, 16.00], and error otherwise; 12.00 is success, 11.00
\* warning, 10.99 error, 16.00 warning and 16.01 error.
C1_PowerClassification ==
    evaluated =>
        LET v == m.voltage
            st == verdict("power").status
            green == 1200 <= v /\ v <= 1500
            yellow == (1100 <= v /\ v < 1200) \/ (1500 < v /\ v <= 1600)
        IN  /\ (st = "success") <=> green
            /\ (st = "warning") <=> yellow
            /\ (st = "error") <=> (~green /\ ~yellow)
            /\ v = 1200 => st = "success"
            /\ v = 1100 => st = "warning"
            /\ v = 1099 => st = "error"
            /\ v = 1600 => st = "warning"
            /\ v = 1601 => st = "error"

C1_Witness ==
    evaluated /\ m.voltage = 1099 /\ verdict("power").status = "error"

C9_PressureClassification ==
    evaluated =>
        LET Rule(p, st) ==
                /\ (st = "success") <=> (300 <= p /\ p <= 800)
                /\ (st = "warning") <=> (200 <= p /\ p < 300)
                /\ (st = "error") <=> (p < 200 \/ p > 800)
        IN  /\ Rule(m.manifoldPsi, verdict("manifold").status)
            /\ Rule(m.sourcePsi, verdict("source").status)
            /\ m.manifoldPsi = m.sourcePsi =>
                   verdict("manifold").status = verdict("source").status

C9_Witness ==
    /\ evaluated
    /\ m.manifoldPsi = 299 /\ m.sourcePsi = 299
    /\ verdict("manifold").status = "warning"
    /\ verdict("source").status = "warning"

\* C10: cloud classification. For every reachable flag and ping time the status
\* is error iff the cloud is not reachable (whatever the ping), success iff
\* reachable and ping <= 250 ms, warning iff reachable and ping > 250 ms; a ping
\* of 250 ms is success.
C10_CloudClassification ==
    evaluated =>
        LET reachable == m.cloudReachable
            ping == m.cloudPingMs
            st == verdict("cloud").status
        IN  /\ (st = "error") <=> ~reachable
            /\ (st = "success") <=> (reachable /\ ping <= 250)
            /\ (st = "warning") <=> (reachable /\ ping > 250)
            /\ (reachable /\ ping = 250) => st = "success"

C10_Witness ==
    /\ evaluated
    /\ m.cloudReachable /\ m.cloudPingMs = 251
    /\ verdict("cloud").status = "warning"

\* ------------------------------------------------------- aggregator claims

summarised == pass = "summary"

\* The labels compared without regard to letter case, as the specification
\* writes them.
Lower(label) ==
    CASE label = "Needs Attention" -> "needs attention"
      [] label = "Needs attention" -> "needs attention"
      [] label = "Good (with advisories)" -> "good (with advisories)"
      [] label = "Good" -> "good"
      [] label = "Excellent" -> "excellent"
      [] OTHER -> label

NonSuccess == {i \in 1..Len(diagCards) : diagCards[i].status # "success"}

AnyError == \E i \in 1..Len(diagCards) : diagCards[i].status = "error"

AnyWarning == \E i \in 1..Len(diagCards) : diagCards[i].status = "warning"

Precedence(label) ==
    /\ (label = "needs attention") <=> AnyError
    /\ (label = "good (with advisories)") <=> (~AnyError /\ AnyWarning)
    /\ (label = "excellent") <=> (NonSuccess = {})

\* C2: aggregator label precedence. For every assignment of statuses to the nine
\* verdicts the overall label is "needs attention" iff at least one verdict is
\* error, "good (with advisories)" iff none is error and at least one is warning,
\* and "excellent" iff all nine are success, at both places that compute it: the
\* Overview card and the Overall Status row of the Network Status card.
C2_LabelPrecedence ==
    summarised =>
        /\ Precedence(Lower(overall.card.statusLabel))
        /\ Precedence(Lower(overall.row))

\* The Overview card alone follows the precedence.
C2_OverviewCardPrecedence ==
    summarised => Precedence(Lower(overall.card.statusLabel))

DeclarationOrder ==
    << "ethernet", "wifi", "cellular", "satellite", "power", "manifold", "source",
       "cloud", "firmware" >>

\* The place of non-success verdict i among the non-success verdicts.
Rank(i) == Cardinality({j \in NonSuccess : j < i}) + 1

\* C3: topIssues selection. For every assignment of statuses to the nine verdicts
\* topIssues is exactly the first min(3, k) non-success verdicts in the fixed
\* declaration order (k the number of non-success verdicts), each rendered as
\* "title: summaryPrimary"; an error is never moved ahead of an earlier-declared
\* warning, and one error + one warning + seven success gives length 2.
C3_TopIssues ==
    summarised =>
        LET issues == overall.card.topIssues
            k == Cardinality(NonSuccess)
            errors == {i \in NonSuccess : diagCards[i].status = "error"}
            warnings == {i \in NonSuccess : diagCards[i].status = "warning"}
        IN  /\ [i \in 1..Len(diagCards) |-> diagCards[i].id] = DeclarationOrder
            /\ Len(issues) = (IF k < 3 THEN k ELSE 3)
            /\ \A i \in NonSuccess :
                   Rank(i) <= 3 =>
                       issues[Rank(i)] =
                           diagCards[i].title \o ": " \o diagCards[i].summaryPrimary
            /\ \A w \in warnings : \A e \in errors :
                   (w < e /\ Rank(e) <= 3) => Rank(w) < Rank(e)
            /\ (Cardinality(errors) = 1 /\ Cardinality(warnings) = 1) =>
                   Len(issues) = 2

C3_Witness ==
    /\ summarised
    /\ diagCards[1].status = "warning" /\ diagCards[2].status = "error"
    /\ Cardinality(NonSuccess) > 3
    /\ Len(overall.card.topIssues) = 3
    /\ overall.card.topIssues[1] = "Ethernet: Degraded"

Sentinel == << "* All diagnostics passed." >>

\* C4: all-passed sentinel. The aggregator shows the "all diagnostics passed"
\* sentinel iff all nine verdicts are success, and in exactly that case the label
\* is "excellent"; whenever a verdict is non-success the sentinel is not shown and
\* the issue list is non-empty.
C4_AllPassedSentinel ==
    summarised =>
        LET shown == overall.card.lines = Sentinel
            excellent == Lower(overall.card.statusLabel) = "excellent"
        IN  /\ shown <=> (NonSuccess = {})
            /\ excellent <=> (NonSuccess = {})
            /\ NonSuccess # {} =>
                   /\ ~shown
                   /\ Len(overall.card.topIssues) > 0
                   /\ Len(overall.card.lines) = Len(overall.card.topIssues)

C4_Witness ==
    /\ summarised
    /\ NonSuccess = {}
    /\ overall.card.lines = Sentinel
    /\ overall.card.statusLabel = "Excellent"

\* ------------------------------------------------- firmware and helper claims

\* C11: firmware classification. For every combination of supported and
\* update-available the status is error iff the version is not supported (even
\* when an update is available), warning iff supported and an update is
\* available, and success iff supported and no update is available.
C11_FirmwareClassification ==
    evaluated =>
        LET supported == m.firmwareSupported
            update == m.firmwareUpdateAvailable
            st == verdict("firmware").status
        IN  /\ (st = "error") <=> ~supported
            /\ (st = "warning") <=> (supported /\ update)
            /\ (st = "success") <=> (supported /\ ~update)
            /\ (~supported /\ update) => st = "error"

C11_Witness ==
    /\ evaluated
    /\ ~m.firmwareSupported /\ m.firmwareUpdateAvailable
    /\ verdict("firmware").status = "error"

\* The integer nearest to n / d (halves upwards), for 0 <= n and d > 0.
Nearest(n, d) == CHOOSE q \in 0..n : 2 * d * q - d <= 2 * n /\ 2 * n < 2 * d * q + d

\* C12: Wi-Fi channel from frequency. For every integer frequency f the channel
\* is round((f - 2407) / 5) when 2412 <= f <= 2484, round((f - 5000) / 5) when
\* 5000 <= f <= 5900, and absent (null) for any other frequency or a null input;
\* an absent result is never reported as channel zero. channel(2412) = 1,
\* channel(5180) = 36, channel(3000) = absent, channel(null) = absent.
C12_WifiChannel ==
    evaluated =>
        LET f == m.wifiFreqMHz
            low == f # <<>> /\ 2412 <= f[1] /\ f[1] <= 2484
            high == f # <<>> /\ 5000 <= f[1] /\ f[1] <= 5900
        IN  /\ low => wifiChannel = ToString(Nearest(f[1] - 2407, 5))
            /\ high => wifiChannel = ToString(Nearest(f[1] - 5000, 5))
            /\ (~low /\ ~high) => (wifiChannel = NULL /\ wifiChannel # "0")
            /\ f = <<2412>> => wifiChannel = "1"
            /\ f = <<5180>> => wifiChannel = "36"
            /\ f = <<3000>> => wifiChannel = NULL
            /\ f = <<>> => wifiChannel = NULL

C12_Witness ==
    evaluated /\ m.wifiFreqMHz = <<5180>> /\ wifiChannel = "36"

Clamp(p) == IF p < 0 THEN 0 ELSE IF p > 100 THEN 100 ELSE p

\* C13: the signal glyph is idempotent under clamping. For every integer pct,
\* negative and above 100 included, glyph(pct) = glyph(min(100, max(0, pct)));
\* glyph(-5) = glyph(0) = five empty segments, glyph(150) = glyph(100) = five
\* filled segments, and a null input renders five empty segments.
C13_GlyphClamping ==
    evaluated =>
        LET p == m.wifiStrengthPercent
        IN  /\ p = <<>> => wifiGlyph = "....."
            /\ p # <<>> => wifiGlyph = wifiStrengthGlyph(<<Clamp(p[1])>>)
            /\ p \in {<<0 - 5>>, <<0>>} => wifiGlyph = "....."
            /\ p \in {<<150>>, <<100>>} => wifiGlyph = "#####"

C13_Witness ==
    evaluated /\ m.wifiStrengthPercent = <<150>> /\ wifiGlyph = "#####"

Glyphs == << ".....", "#....", "##...", "###..", "####.", "#####" >>

\* The number of filled segments of a glyph made of filled segments followed by
\* empty ones.
Filled(glyph) == CHOOSE k \in 0..5 : Glyphs[k + 1] = glyph

\* C14: signal glyph banding. For every pct in 0..100 the glyph has exactly five
\* segments, all filled segments precede all empty ones, the number of filled
\* segments is round(pct / 20), always in 0..5, and the filled count is
\* non-decreasing in pct.
C14_GlyphBanding ==
    evaluated =>
        LET p == m.wifiStrengthPercent
        IN  (p # <<>> /\ 0 <= p[1] /\ p[1] <= 100) =>
                /\ Len(wifiGlyph) = 5
                /\ \E k \in 0..5 : wifiGlyph = Glyphs[k + 1]
                /\ Filled(wifiGlyph) = Nearest(p[1], 20)
                /\ \A q \in 0..p[1] :
                       Filled(wifiStrengthGlyph(<<q>>)) <= Filled(wifiGlyph)

C14_Witness ==
    evaluated /\ m.wifiStrengthPercent = <<10>> /\ wifiGlyph = "#...."

\* ---------------------------------------------------------- rulebook claims

SubsystemIds ==
    { "ethernet", "wifi", "cellular", "satellite", "power",
      "manifold", "source", "cloud", "firmware" }

C15_NineIdsFound ==
    rulebookOpen =>
        (selectedId[1] \in SubsystemIds =>
            (selected # << >> /\ selected[1].id = selectedId[1]))

Distinct(ids) == \A i, j \in 1..Len(ids) : ids[i] = ids[j] => i = j

\* C16: nine verdicts, ids 1:1 with the rulebook. An evaluation pass yields
\* exactly nine verdicts with pairwise distinct ids, the rulebook has exactly
\* nine entries with pairwise distinct ids, the two id sets are equal, and both
\* lists are in the same declaration order.
C16_NineVerdicts ==
    evaluated =>
        LET cardIds == [i \in 1..Len(diagCards) |-> diagCards[i].id]
            ruleIds == [i \in 1..Len(RULEBOOK) |-> RULEBOOK[i].id]
        IN  /\ Len(cardIds) = 9 /\ Distinct(cardIds)
            /\ Len(ruleIds) = 9 /\ Distinct(ruleIds)
            /\ {cardIds[i] : i \in 1..9} = {ruleIds[i] : i \in 1..9}
            /\ {cardIds[i] : i \in 1..9} = SubsystemIds
            /\ cardIds = ruleIds

C16_Witness ==
    /\ evaluated
    /\ m # Demo
    /\ diagCards[4].id = "satellite" /\ RULEBOOK[4].id = "satellite"
    /\ diagCards[9].id = "firmware" /\ RULEBOOK[9].id = "firmware"

\* C17: remediation attachment. The Wi-Fi verdict carries a remediation block
\* iff its status is warning or error, and no verdict of any other subsystem
\* carries one; when present the action list is non-empty and its first action
\* has kind goToNetwork; the openCheatSheet action appears only when the Wi-Fi
\* status is error.
C17_RemediationAttachment ==
    evaluated =>
        LET wifi == verdict("wifi")
        IN  /\ (wifi.remediation # << >>) <=> (wifi.status \in {"warning", "error"})
            /\ \A i \in 1..Len(diagCards) :
                   diagCards[i].id # "wifi" => diagCards[i].remediation = << >>
            /\ wifi.remediation # << >> =>
                   LET actions == wifi.remediation[1].actions
                   IN  /\ Len(actions) >= 1
                       /\ actions[1].kind = "goToNetwork"
                       /\ (\E k \in 1..Len(actions) : actions[k].kind = "openCheatSheet")
                              => wifi.status = "error"

C17_Witness ==
    /\ evaluated
    /\ verdict("wifi").status = "warning"
    /\ verdict("wifi").remediation # << >>
    /\ Len(verdict("wifi").remediation[1].actions) = 1

\* C18: unknown is never success. For the wireless and cellular evaluators,
\* whenever internet reachability is "unknown" the status is warning or error
\* and never success, for every value of the other inputs.
C18_UnknownNeverSuccess ==
    evaluated =>
        /\ m.wifiInternetReachability = "unknown" =>
               verdict("wifi").status \in {"warning", "error"}
        /\ m.cellInternetReachability = "unknown" =>
               verdict("cellular").status \in {"warning", "error"}

C18_Witness ==
    /\ evaluated
    /\ m.cellInternetReachability = "unknown"
    /\ m.cellPacketLossPct = 0 /\ m.cellStrength >= 40
    /\ verdict("cellular").status = "error"

\* The conditions the rulebook lists under a colour for a subsystem.
Listed(id, colour) ==
    LET items == IF colour = "red" THEN find(id)[1].red
                 ELSE IF colour = "yellow" THEN find(id)[1].yellow
                 ELSE find(id)[1].green
    IN  {items[k] : k \in 1..Len(items)}

\* C19: rulebook and evaluator never diverge. If the input satisfies a condition
\* the rulebook lists under red for a subsystem the evaluator returns error, and
\* if it satisfies all conditions listed under green it returns success; for
\* Ethernet "RX/TX errors > 0" (red), Satellite "Enabled but offline / fault"
\* (red), Wi-Fi "No internet reachability" (red), Power "< 11.0 V" / "> 16.0 V"
\* (red) and "12.0-15.0 V" (green), Cellular "Internet unreachable" (red).
C19_RulebookAgreement ==
    evaluated =>
        /\ ("RX/TX errors > 0" \in Listed("ethernet", "red")
              /\ (m.ethRxErrors > 0 \/ m.ethTxErrors > 0))
               => verdict("ethernet").status = "error"
        /\ ("Enabled but offline / fault" \in Listed("satellite", "red")
              /\ satEnabled(satelliteBackup) /\ m.satStatus = "offline")
               => verdict("satellite").status = "error"
        /\ ("No internet reachability" \in Listed("wifi", "red")
              /\ m.wifiInternetReachability = "offline")
               => verdict("wifi").status = "error"
        /\ ("< 11.0 V" \in Listed("power", "red") /\ m.voltage < 1100)
               => verdict("power").status = "error"
        /\ ("> 16.0 V" \in Listed("power", "red") /\ m.voltage > 1600)
               => verdict("power").status = "error"
        /\ (Listed("power", "green") = {"12.0-15.0 V"}
              /\ 1200 <= m.voltage /\ m.voltage <= 1500)
               => verdict("power").status = "success"
        /\ ("Internet unreachable" \in Listed("cellular", "red")
              /\ m.cellInternetReachability = "offline")
               => verdict("cellular").status = "error"

\* The part of C19 the code satisfies: the power and cellular conditions.
C19_PowerCellularAgree ==
    evaluated =>
        /\ ("< 11.0 V" \in Listed("power", "red") /\ m.voltage < 1100)
               => verdict("power").status = "error"
        /\ ("> 16.0 V" \in Listed("power", "red") /\ m.voltage > 1600)
               => verdict("power").status = "error"
        /\ (Listed("power", "green") = {"12.0-15.0 V"}
              /\ 1200 <= m.voltage /\ m.voltage <= 1500)
               => verdict("power").status = "success"
        /\ ("Internet unreachable" \in Listed("cellular", "red")
              /\ m.cellInternetReachability = "offline")
               => verdict("cellular").status = "error"

\* The three red conditions of C19 the evaluators report as warning.
C19_EthernetErrorsRed ==
    evaluated =>
        ((m.ethRxErrors > 0 \/ m.ethTxErrors > 0)
            => verdict("ethernet").status = "error")

C19_SatelliteOfflineRed ==
    evaluated =>
        ((satEnabled(satelliteBackup) /\ m.satStatus = "offline")
            => verdict("satellite").status = "error")

C19_WifiUnreachableRed ==
    evaluated =>
        (m.wifiInternetReachability = "offline" => verdict("wifi").status = "error")

\* C20: Ethernet degraded speed/drops is a warning. An Ethernet snapshot with link
\* detected, internet online, RX errors = 0 and TX errors = 0 but with a non-zero
\* RX dropped count (or a negotiated speed below the expected one) is classified
\* warning, not success.
C20_EthernetDegraded ==
    evaluated =>
        ((/\ m.ethLinkDetected = "Yes" /\ m.ethInternet = "online"
          /\ m.ethRxErrors = 0 /\ m.ethTxErrors = 0
          /\ (m.ethRxDropped > 0 \/ m.ethSpeed = "100 Mb/s"))
            => verdict("ethernet").status = "warning")

\* ------------------------------------------------------------ wizard claims

\* The operations that are neither a provisioning operation nor a change of
\* the satellite-backup setting.
OtherOperation ==
    \/ next
    \/ back
    \/ \E i \in 0..(Len(STEPS) - 1) : setStepIndex(i)
    \/ simulateQrScan
    \/ addZone
    \/ \E i \in 1..Len(zones), type \in ZoneTypes : setZoneType(zones[i], type)
    \/ \E i \in 1..Len(zones), name \in TextInputs : setZoneName(zones[i], name)
    \/ \E i \in 1..Len(diagCards) : onToggle(diagCards[i])
    \/ openRulebook
    \/ \E i \in 1..Len(diagCards) : onRemediation(diagCards[i], "openCheatSheet")
    \/ onClose
    \/ \E v \in YesNo : setCellularBackup(v)
    \/ \E v \in primaryInterfaceOptions : setPrimaryInterface(v)
    \/ \E v \in TextInputs : setCustomerName(v)
    \/ \E v \in TextInputs : setInstallLocation(v)
    \/ \E v \in TextInputs : setInstallDate(v)

\* C21: verdicts are derived purely from snapshots. The nine verdicts are a
\* function of the measurement values plus, for Wi-Fi, the provisioning state
\* and, for satellite, the satellite-backup setting; every other operation
\* leaves every verdict's status, summaries and remediation unchanged, and two
\* evaluation passes over the same inputs yield identical verdicts.
C21_VerdictsFromSnapshots ==
    [][ /\ OtherOperation => diagCards' = diagCards
        /\ (/\ m' = m
            /\ matterWifiProvisioned' = matterWifiProvisioned
            /\ matterProvisionedSsid' = matterProvisionedSsid
            /\ satelliteBackup' = satelliteBackup) => diagCards' = diagCards ]_vars

C21_Witness ==
    /\ pass = "verdicts"
    /\ Len(zones) = 2
    /\ matterWifiProvisioned /\ primaryInterface = "Wi-Fi"
    /\ verdict("wifi").status = "warning"

\* C22: remediation dispatch. Triggering a remediation action of kind
\* goToNetwork sets the current step to "Network" and changes neither
\* rulebookOpen nor rulebookFocus; triggering one of kind openCheatSheet sets
\* rulebookFocus to the id of the card that emitted it and rulebookOpen to true
\* and leaves the current step unchanged; neither changes provisioning state or
\* any verdict.
C22_RemediationDispatch ==
    [][ \A i \in 1..Len(diagCards) :
          /\ onRemediation(diagCards[i], "goToNetwork") =>
                 /\ step(stepIndex') = "Network"
                 /\ rulebookOpen' = rulebookOpen
                 /\ rulebookFocus' = rulebookFocus
                 /\ matterWifiProvisioned' = matterWifiProvisioned
                 /\ matterProvisionedSsid' = matterProvisionedSsid
                 /\ diagCards' = diagCards
          /\ onRemediation(diagCards[i], "openCheatSheet") =>
                 /\ rulebookFocus' = diagCards[i].id
                 /\ rulebookOpen' = TRUE
                 /\ stepIndex' = stepIndex
                 /\ matterWifiProvisioned' = matterWifiProvisioned
                 /\ matterProvisionedSsid' = matterProvisionedSsid
                 /\ diagCards' = diagCards ]_vars

C22_Witness ==
    /\ rulebookOpen
    /\ rulebookFocus = "wifi"
    /\ openDiagId = "wifi"
    /\ step(stepIndex) = "Tests"
    /\ verdict("wifi").status = "error"

\* The value of the Wi-Fi card's "Provisioned via Matter" row.
ProvisionedViaMatter == verdict("wifi").details[1].value

\* C23: selecting is not provisioning. Immediately after chooseWifi(ssid), for
\* every ssid and every prior state (a state provisioned to that same ssid
\* included), matterWifiProvisioned is false and matterProvisionedSsid is null,
\* selectedWifi = ssid and primaryInterface = "Wi-Fi"; the Wi-Fi verdict then
\* reports "Provisioned via Matter" = No until a provision operation occurs.
C23_SelectingIsNotProvisioning ==
    /\ [][ \A ssid \in Ssids :
              chooseWifi(ssid) =>
                  /\ matterWifiProvisioned' = FALSE
                  /\ matterProvisionedSsid' = NULL
                  /\ selectedWifi' = ssid
                  /\ primaryInterface' = "Wi-Fi"
                  /\ verdict("wifi").details[1].value' = "No" ]_vars
    /\ [][ (~matterWifiProvisioned /\ matterWifiProvisioned') =>
              (provisionViaMatterUsingCurrentWifi \/ provisionSelectedWifi) ]_vars
    /\ [](~matterWifiProvisioned => ProvisionedViaMatter = "No")

C23_Witness ==
    /\ selectedWifi = "Robust Debt"
    /\ primaryInterface = "Wi-Fi"
    /\ ~matterWifiProvisioned /\ matterProvisionedSsid = NULL
    /\ ProvisionedViaMatter = "No"
    /\ serial # NULL

\* C24: diagnostics accordion, one open at a time. In every reachable state at
\* most one diagnostic card is open; toggling the currently open card closes it,
\* toggling any other card makes that card the only open one, and the open card
\* id is always null or one of the nine subsystem ids.
C24_AccordionOneOpen ==
    /\ [](/\ openDiagId \in {NULL} \cup SubsystemIds
          /\ Cardinality({i \in 1..Len(diagCards) : openDiagId = diagCards[i].id}) <= 1)
    /\ [][ \A i \in 1..Len(diagCards) :
              onToggle(diagCards[i]) =>
                  /\ openDiagId = diagCards[i].id => openDiagId' = NULL
                  /\ openDiagId # diagCards[i].id =>
                         {j \in 1..Len(diagCards) : openDiagId' = diagCards'[j].id} = {i} ]_vars

C24_Witness ==
    /\ openDiagId = "satellite"
    /\ step(stepIndex) = "Tests"

\* C25: provisioning state consistency. After any sequence of
\* provisionViaMatterUsingCurrentWifi, chooseWifi, "Provision Selected Wi-Fi"
\* and other wizard operations, matterWifiProvisioned is true iff
\* matterProvisionedSsid is non-null, and whenever it is true
\* matterProvisionedSsid equals selectedWifi.
C25_ProvisioningConsistent ==
    /\ matterWifiProvisioned <=> (matterProvisionedSsid # NULL)
    /\ matterWifiProvisioned => matterProvisionedSsid = selectedWifi

C25_Witness ==
    /\ matterWifiProvisioned
    /\ matterProvisionedSsid = "Deranged Love"
    /\ selectedWifi = "Deranged Love"

\* C26: the step index stays in range. After any sequence of next, back,
\* goToStep and step-bubble clicks, stepIndex is in 0..5; next at the last step
\* and back at the first step leave stepIndex unchanged, otherwise next increases
\* it by exactly 1 and back decreases it by exactly 1.
C26_StepIndexInRange ==
    /\ [](stepIndex \in 0..5 /\ stepIndex \in 0..(Len(STEPS) - 1))
    /\ [](nextIndex(5) = 5 /\ backIndex(0) = 0)
    /\ [][ /\ next => stepIndex' = IF stepIndex = 5 THEN 5 ELSE stepIndex + 1
           /\ back => stepIndex' = IF stepIndex = 0 THEN 0 ELSE stepIndex - 1 ]_vars

C26_Witness ==
    /\ stepIndex = 5
    /\ overall # NotRendered
    /\ serial # NULL

\* C27: scan gates the wizard. In every reachable state in which the current
\* step is past QR Scan (stepIndex > 0, in particular the Done step), a
\* controller has been scanned: serial is non-null and matterPaired and
\* matterAttested are true; "Commissioning Complete" is never reached with
\* serial = null.
C27_ScanGatesWizard ==
    stepIndex > 0 => (serial # NULL /\ matterPaired /\ matterAttested)

\* The part of C27 the code satisfies: the serial and the two Matter flags are
\* set together, and Continue Setup goes on only after a scan.
C27_ContinueAfterScan ==
    /\ []((serial # NULL) <=> (matterPaired /\ matterAttested))
    /\ [][ (next /\ stepIndex = 0) => serial # NULL ]_vars

\* C28: the primary interface stays in its declared domain. After any sequence
\* of operations, choosing any option of the Primary Network Interface select
\* included, primaryInterface is exactly one of "Ethernet", "Wi-Fi" (ASCII
\* hyphen) or "Cellular".
C28_PrimaryInterfaceDomain ==
    primaryInterface \in { "Ethernet", "Wi-Fi", "Cellular" }

\* C29: zone ids are unique and dense. After any sequence of addZone and zone
\* type/name edits, the zone list is non-empty and its ids are exactly 1..n in
\* list order with no duplicates; addZone appends exactly one zone with id n+1,
\* type Roof and name "Roof Zone n+1" and leaves existing zones unchanged; an
\* edit changes only the type or name of the zone with the matching id and never
\* the count or any id.
C29_ZoneIdsDense ==
    /\ [](/\ Len(zones) >= 1
          /\ \A i \in 1..Len(zones) : zones[i].id = i
          /\ \A i, j \in 1..Len(zones) : zones[i].id = zones[j].id => i = j)
    /\ [][ addZone =>
              /\ Len(zones') = Len(zones) + 1
              /\ SubSeq(zones', 1, Len(zones)) = zones
              /\ zones'[Len(zones')] =
                     [ id |-> Len(zones) + 1, type |-> "Roof",
                       name |-> "Roof Zone " \o ToString(Len(zones) + 1) ] ]_vars
    /\ [][ \A i \in 1..Len(zones) :
              /\ \A type \in ZoneTypes :
                     setZoneType(zones[i], type) =>
                         /\ Len(zones') = Len(zones)
                         /\ \A j \in 1..Len(zones) :
                                /\ zones'[j].id = zones[j].id
                                /\ zones'[j].name = zones[j].name
                                /\ j # i => zones'[j] = zones[j]
                         /\ zones'[i].type = type
              /\ \A name \in TextInputs :
                     setZoneName(zones[i], name) =>
                         /\ Len(zones') = Len(zones)
                         /\ \A j \in 1..Len(zones) :
                                /\ zones'[j].id = zones[j].id
                                /\ zones'[j].type = zones[j].type
                                /\ j # i => zones'[j] = zones[j]
                         /\ zones'[i].name = name ]_vars

C29_Witness ==
    /\ Len(zones) = 3
    /\ zones[1].name = "Roof Zone 1"
    /\ zones[2].type = "Eave"
    /\ zones[3].name = "Attic"

\* C30 as stated: wizard progress. From any reachable state, if only next is
\* taken repeatedly (weak fairness on next, no back or step-bubble clicks), the
\* wizard reaches the Done step.
C30_WizardProgress == <>(step(stepIndex) = "Done")

\* A Continue button is offered and reachable: the rulebook is closed, and the
\* QR Scan step has a scanned serial.
ContinueOffered ==
    /\ ~rulebookOpen
    /\ step(stepIndex) = "QR Scan" => (serial # NULL /\ serial # "")

\* C30: wizard progress, from the states in which a Continue button can be
\* pressed (a controller has been scanned or the wizard is past QR Scan, and the
\* rulebook is closed). If only next is taken repeatedly (weak fairness on
\* next), the wizard reaches the Done step; every next advances the step index
\* by exactly one, so the steps are visited in the order QR Scan, Station,
\* System, Network, Tests, Done without skipping one and Done is reached within
\* at most 5 next operations; once at Done the wizard stays at Done, and the
\* updater of next maps the last index to itself.
C30_ProgressWhenContinueOffered ==
    /\ (ContinueOffered ~> (step(stepIndex) = "Done"))
    /\ [][ /\ stepIndex' = stepIndex + 1
           /\ stepIndex' <= Len(STEPS) - 1 ]_stepIndex
    /\ [](step(stepIndex) = "Done" => [](step(stepIndex) = "Done"))
    /\ [](nextIndex(Len(STEPS) - 1) = Len(STEPS) - 1)

\* Done reached by a next, with a scanned controller.
C30_Witness ==
    /\ step(stepIndex) = "Done"
    /\ pass = "verdicts"
    /\ serial # NULL
    /\ overall # NotRendered

====
